---- MODULE Spec2Model ----
(* Model of ofx::AbstractCache (libs/ofxIO/include/ofx/AbstractCache.h):   *)
(* the key -> shared_ptr<value> store, the seven notification channels and  *)
(* the strategy that answers IsValid and Replace.                           *)
EXTENDS Integers, Sequences, FiniteSets, TLC

(* ---------------------------------------------------------------------- *)
(* Bounds                                                                   *)
(* ---------------------------------------------------------------------- *)
NumKeys == 2
NumVals == 3
NumThreads == 2

Keys == 1..NumKeys
Vals == 1..NumVals
\* heap cells: one per stored key and the one make_shared allocates before
\* the overwritten cell is released
Handles == 1..(NumKeys + 2)

\* an empty std::shared_ptr
Null == 0
\* the content of a heap cell nobody owns
NoVal == 0
\* _data.end()
End == 0
\* what _data holds for a key that was stored with an empty std::shared_ptr
EmptyPtr == -1
\* what reading through an empty std::shared_ptr gives when it gives anything
Junk == -1

\* the keys "a" and "b" of the scenarios, and the key "k" of the
\* replacement scenario
a == CHOOSE k \in Keys : \A j \in Keys : k <= j
b == a + 1
K0 == a

(* ---------------------------------------------------------------------- *)
(* Strategies (TStrategy): how onIsValid and onReplace answer               *)
(* ---------------------------------------------------------------------- *)
Strategies == {"Free", "NoEvict", "NeverValid", "EvictK"}

VARIABLES
    strategy,   \* _strategy, fixed at construction
    data,       \* _data : key -> handle (Null when the key is absent)
    heap,       \* the values behind the handles (NoVal when the cell is free)
    op,         \* the last public call: name, key, value
    pre,        \* _data and the heap when the last public call was entered
    trace,      \* the notifications of the last public call, in order
    result,     \* what the last public call returned
    scenario,   \* progress of the calls so far through Script
    mirror,     \* key -> value as an observer rebuilds it from the notifications
    faults,     \* what may go wrong: "none", "callbacks" (a delegate may throw)
                \* or "handles" (a caller may pass an empty handle)
    watched,    \* whether the script monitor and the observer are attached
    held,       \* the handle a caller has kept from a get (Null when none)
    heldVal,    \* the value the caller read through held when get returned it
    mutex,      \* _mutex: the thread that holds it (Unlocked when none)
    pc,         \* thread -> where it is: "out", "wait", "in" or "reenter"
    job,        \* thread -> the call it executes
    glog        \* the notifications of the calls in execution, in global order

threadVars == <<mutex, pc, job, glog>>

vars == <<strategy, data, heap, op, pre, trace, result, scenario, mirror,
          faults, watched, held, heldVal, mutex, pc, job, glog>>

(* ---------------------------------------------------------------------- *)
(* Store helpers                                                            *)
(* ---------------------------------------------------------------------- *)
\* the keys of _data
Present(d) == {k \in Keys : d[k] # Null}

\* *handle
Deref(h, x) == IF x \in Handles THEN h[x] ELSE Junk

\* key -> value read through the handle (NoVal when absent)
Contents(d, h) == [k \in Keys |-> IF d[k] = Null THEN NoVal ELSE Deref(h, d[k])]

\* shared_ptr reference counting: a cell that neither a handle of _data nor
\* a handle outside the cache (owned) refers to is freed
Collect(d, h, owned) ==
    [x \in Handles |->
        IF x \in owned \/ \E k \in Keys : d[k] = x THEN h[x] ELSE NoVal]

\* The address of a cell means nothing. Between two calls the cells are
\* renamed: the cell of the entry of key k becomes cell k, and a cell kept by
\* a caller that no entry refers to becomes cell NumKeys + 1.
Moved(d, h, kept) ==
    [data |-> [k \in Keys |-> IF d[k] \in Handles THEN k ELSE d[k]],
     heap |-> [x \in Handles |->
                IF x \in Keys /\ d[x] \in Handles THEN h[d[x]]
                ELSE IF x = NumKeys + 1 /\ kept # Null /\ \A k \in Keys : d[k] # kept
                     THEN h[kept]
                     ELSE NoVal],
     held |-> IF kept = Null THEN Null
              ELSE IF \E k \in Keys : d[k] = kept
                   THEN CHOOSE k \in Keys : d[k] = kept
                   ELSE NumKeys + 1]

\* an exception or a crash has ended the call: nothing after it runs
Unwinding(s) == s.error # "none"

\* std::make_shared<TValue>(val): the handle of a fresh cell
FreshHandle(h) ==
    LET free == {x \in Handles : h[x] = NoVal}
    IN  CHOOSE x \in free : \A y \in free : x <= y

\* _data.find(key)
find(s, key) == IF s.data[key] # Null THEN key ELSE End

\* _data.insert(std::make_pair(key, make_shared(val))): std::map::insert
\* leaves an existing entry alone
insert(s, key, val) ==
    IF Unwinding(s) \/ s.data[key] # Null THEN s
    ELSE LET x == FreshHandle(s.heap)
         IN  [s EXCEPT !.data[key] = x, !.heap[x] = val]

\* it->second = std::make_shared<TValue>(val): the new cell is allocated,
\* the handle of the entry rebinds to it, the old cell loses its owner
\* an overwrite that changes the value behind the handle the store holds
assign_InPlace(s, it, val) ==
    IF Unwinding(s) THEN s
    ELSE [s EXCEPT !.heap[s.data[it]] = val]

assign(s, it, val) ==
    LET x  == FreshHandle(s.heap)
        d2 == [s.data EXCEPT ![it] = x]
    IN  IF Unwinding(s) THEN s
        ELSE [s EXCEPT !.data = d2,
                       !.heap = Collect(d2, [s.heap EXCEPT ![x] = val], s.owned)]

\* _data.insert(std::make_pair(key, val)) with the caller's handle
insertHandle(s, key, x) ==
    IF Unwinding(s) \/ s.data[key] # Null THEN s
    ELSE [s EXCEPT !.data[key] = IF x = Null THEN EmptyPtr ELSE x]

\* it->second = val with the caller's handle
assignHandle(s, it, x) ==
    LET d2 == [s.data EXCEPT ![it] = IF x = Null THEN EmptyPtr ELSE x]
    IN  IF Unwinding(s) THEN s
        ELSE [s EXCEPT !.data = d2, !.heap = Collect(d2, s.heap, s.owned)]

\* _data.erase(it)
erase(s, it) ==
    LET d2 == [s.data EXCEPT ![it] = Null]
    IN  IF Unwinding(s) THEN s
        ELSE [s EXCEPT !.data = d2, !.heap = Collect(d2, s.heap, s.owned)]

\* _data.clear()
clearAll(s) ==
    LET d2 == [k \in Keys |-> Null]
    IN  IF Unwinding(s) THEN s
        ELSE [s EXCEPT !.data = d2, !.heap = Collect(d2, s.heap, s.owned)]

(* ---------------------------------------------------------------------- *)
(* Notifications: each records the store as the callbacks see it            *)
(* ---------------------------------------------------------------------- *)
Event(type, key, val, s) ==
    [type |-> type, key |-> key, val |-> val, answer |-> TRUE, delMe |-> {},
     react |-> "none", threw |-> FALSE, store |-> Contents(s.data, s.heap)]

\* BasicEvent::notify: the delegates run; when the call has reached its
\* failing notification one of them throws and the exception leaves notify
notify(s, e) ==
    IF Unwinding(s) THEN s
    ELSE LET throws == Len(s.trace) + 1 = s.failAt
         IN  [s EXCEPT !.trace = Append(@, [e EXCEPT !.threw = throws]),
                       !.error = IF throws THEN "callback" ELSE "none"]

\* what a delegate of IsValid may do with the arguments: call invalidate()
\* or leave them alone
Reactions == {"invalidate", "none"}

\* a ValidArgs built as an invalid one
ValidArgs_BuiltInvalid(key) == [key |-> key, valid |-> FALSE]

\* Poco::ValidArgs<TKey> args(key): built valid
ValidArgs(key) == [key |-> key, valid |-> TRUE]

\* TStrategy::onIsValid(const void*, ValidArgs<TKey>& args)
onIsValid(args, react) ==
    IF react = "invalidate" THEN [args EXCEPT !.valid = FALSE] ELSE args

\* args.isValid() after IsValid.notify(this, args)
isValid(key, react) == onIsValid(ValidArgs(key), react).valid

\* Poco::ValidArgs<TKey> args(key); IsValid.notify(this, args)
notifyIsValid(s, key, react) ==
    notify(s, [Event("IsValid", key, NoVal, s) EXCEPT !.answer = isValid(key, react),
                                                      !.react = react])

\* Replace.notify(this, delMe)
notifyReplace(s, delMe) ==
    notify(s, [Event("Replace", End, NoVal, s) EXCEPT !.delMe = delMe])

(* ---------------------------------------------------------------------- *)
(* Protected operations.  s is [data, heap, trace]; the answers of the      *)
(* strategy (react, delMe) are inputs.                                      *)
(* ---------------------------------------------------------------------- *)
\* doRemove that erases without telling anybody
doRemove_Silent(s, it) ==
    IF it # End THEN erase(s, it) ELSE s

\* doRemove(Iterator it)
doRemove(s, it) ==
    IF it # End
    THEN erase(notify(s, Event("Remove", it, NoVal, s)), it)
    ELSE s

\* the loop of doReplace without the lookup: a Remove for every returned key
RECURSIVE removeEach_NoFind(_, _)
removeEach_NoFind(s, delMe) ==
    IF delMe = {} THEN s
    ELSE LET k == CHOOSE x \in delMe : \A y \in delMe : x <= y
         IN  removeEach_NoFind(erase(notify(s, Event("Remove", k, NoVal, s)), k),
                               delMe \ {k})

\* the for loop of doReplace: std::set iterates in ascending key order
RECURSIVE removeEach(_, _)
removeEach(s, delMe) ==
    IF delMe = {} THEN s
    ELSE LET k == CHOOSE x \in delMe : \A y \in delMe : x <= y
         IN  removeEach(doRemove(s, find(s, k)), delMe \ {k})

\* doReplace()
doReplace(s, delMe) ==
    removeEach(notifyReplace(s, delMe), delMe)

\* doAdd without the removal of the entry it overwrites
doAdd_NoRemove(s, key, val, delMe) ==
    LET s2 == notify(s, Event("Add", key, val, s))
        s3 == insert(s2, key, val)
    IN  doReplace(s3, delMe)

\* doAdd with the replacement pass run before the insertion
doAdd_ReplaceFirst(s, key, val, delMe) ==
    LET s1 == doRemove(s, find(s, key))
        s2 == notify(s1, Event("Add", key, val, s1))
        s3 == doReplace(s2, delMe)
    IN  insert(s3, key, val)

\* doAdd that inserts the entry before it announces it
doAdd_InsertFirst(s, key, val, delMe) ==
    LET s1 == doRemove(s, find(s, key))
        s2 == insert(s1, key, val)
        s3 == notify(s2, Event("Add", key, val, s1))
    IN  doReplace(s3, delMe)

\* doAdd(const TKey&, const TValue&)
doAdd(s, key, val, delMe) ==
    LET s1 == doRemove(s, find(s, key))
        s2 == notify(s1, Event("Add", key, val, s1))
        s3 == insert(s2, key, val)
    IN  doReplace(s3, delMe)

\* what *val of an empty handle can do: end the process, or go on with a
\* reference to nothing
Outcomes == {"crash", "continue"}

\* Poco::KeyValueArgs<TKey, TValue> args(key, *val)
deref(s, val, ub) ==
    IF Unwinding(s) \/ val # Null \/ ub = "continue" THEN s
    ELSE [s EXCEPT !.error = "crash"]

\* doAdd that refuses an empty handle before it does anything
doAddShared_Checked(s, key, val, ub, delMe) ==
    IF val = Null THEN [s EXCEPT !.error = "InvalidValue"]
    ELSE LET s1 == doRemove(s, find(s, key))
             s2 == notify(s1, Event("Add", key, Deref(s1.heap, val), s1))
             s3 == insertHandle(s2, key, val)
         IN  doReplace(s3, delMe)

\* doAdd(const TKey&, std::shared_ptr<TValue>&)
doAddShared(s, key, val, ub, delMe) ==
    LET s1 == doRemove(s, find(s, key))
        s2 == deref(s1, val, ub)
        s3 == notify(s2, Event("Add", key, Deref(s2.heap, val), s2))
        s4 == insertHandle(s3, key, val)
    IN  doReplace(s4, delMe)

\* doUpdate that overwrites the way doAdd does
doUpdate_AsAdd(s, key, val, delMe) ==
    LET s1 == doRemove(s, find(s, key))
        s2 == notify(s1, Event("Add", key, val, s1))
        s3 == insert(s2, key, val)
    IN  doReplace(s3, delMe)

\* doUpdate that announces an Update for a key it inserts
doUpdate_AlwaysUpdate(s, key, val, delMe) ==
    LET it == find(s, key)
        s0 == notify(s, Event("Update", key, val, s))
        s1 == IF it = End THEN insert(s0, key, val) ELSE assign(s0, it, val)
    IN  doReplace(s1, delMe)

\* doUpdate(const TKey&, const TValue&)
doUpdate(s, key, val, delMe) ==
    LET it == find(s, key)
        s1 == IF it = End
              THEN insert(notify(s, Event("Add", key, val, s)), key, val)
              ELSE assign(notify(s, Event("Update", key, val, s)), it, val)
    IN  doReplace(s1, delMe)

\* doHas that evicts the entry the strategy calls invalid
doHas_Evicts(s, key, react) ==
    LET it    == find(s, key)
        valid == isValid(key, react)
    IN  IF it # End
        THEN LET s1 == notifyIsValid(s, key, react)
             IN  [s |-> IF valid THEN s1 ELSE doRemove(s1, it), ret |-> valid]
        ELSE [s |-> s, ret |-> FALSE]

\* doHas(const TKey&) const
doHas(s, key, react) ==
    LET it    == find(s, key)
        valid == isValid(key, react)
    IN  IF it # End
        THEN [s |-> notifyIsValid(s, key, react), ret |-> valid]
        ELSE [s |-> s, ret |-> FALSE]

\* doUpdate(const TKey&, std::shared_ptr<TValue>&)
doUpdateShared(s, key, val, ub, delMe) ==
    LET s1 == deref(s, val, ub)
        it == find(s1, key)
        s2 == IF it = End
              THEN insertHandle(notify(s1, Event("Add", key, Deref(s1.heap, val), s1)),
                                key, val)
              ELSE assignHandle(notify(s1, Event("Update", key, Deref(s1.heap, val), s1)),
                                it, val)
    IN  doReplace(s2, delMe)

\* the std::shared_ptr an entry holds
Load(x) == IF x = EmptyPtr THEN Null ELSE x

\* doGet that asks for validity before it announces the read
doGet_ValidFirst(s, key, react) ==
    LET it    == find(s, key)
        valid == isValid(key, react)
    IN  IF it # End
        THEN LET s1 == notifyIsValid(s, key, react)
                 s2 == notify(s1, Event("Get", key, NoVal, s1))
             IN  IF ~valid
                 THEN [s |-> doRemove(s2, it), ret |-> Null]
                 ELSE [s |-> s2, ret |-> Load(s2.data[it])]
        ELSE [s |-> s, ret |-> Null]

\* doGet that leaves an invalid entry in the store
doGet_KeepInvalid(s, key, react) ==
    LET it    == find(s, key)
        valid == isValid(key, react)
    IN  IF it # End
        THEN LET s1 == notify(s, Event("Get", key, NoVal, s))
                 s2 == notifyIsValid(s1, key, react)
             IN  [s |-> s2, ret |-> IF valid THEN Load(s2.data[it]) ELSE Null]
        ELSE [s |-> s, ret |-> Null]

\* doGet(const TKey&)
doGet(s, key, react) ==
    LET it    == find(s, key)
        valid == isValid(key, react)
    IN  IF it # End
        THEN LET s1 == notify(s, Event("Get", key, NoVal, s))
                 s2 == notifyIsValid(s1, key, react)
             IN  IF ~valid
                 THEN [s |-> doRemove(s2, it), ret |-> Null]
                 ELSE [s |-> s2, ret |-> Load(s2.data[it])]
        ELSE [s |-> s, ret |-> Null]

\* doClear that removes the entries one by one
doClear_RemoveEach(s) ==
    removeEach(notify(s, Event("Clear", End, NoVal, s)), Present(s.data))

\* doClear that empties the store without the Clear notification
doClear_Silent(s) ==
    clearAll(s)

\* doClear()
doClear(s) ==
    clearAll(notify(s, Event("Clear", End, NoVal, s)))

(* ---------------------------------------------------------------------- *)
(* What a strategy of each kind may answer                                  *)
(* ---------------------------------------------------------------------- *)
\* TStrategy::onIsValid
ValidAnswers(st) ==
    CASE st = "NeverValid" -> {FALSE}
      [] st = "NoEvict"    -> {TRUE}
      [] OTHER             -> BOOLEAN

\* TStrategy::onReplace, asked while the store holds `store`
ReplaceAnswers(st, store) ==
    CASE st = "NoEvict" -> {{}}
      [] st = "EvictK"  -> {IF store[K0] # NoVal THEN {K0} ELSE {}}
      [] OTHER          -> SUBSET Keys

\* every answer recorded in tr is one the strategy st gives
Allowed(st, tr) ==
    \A i \in 1..Len(tr) :
        /\ tr[i].type = "IsValid" => tr[i].answer \in ValidAnswers(st)
        /\ tr[i].type = "Replace" => tr[i].delMe \in ReplaceAnswers(st, tr[i].store)

(* ---------------------------------------------------------------------- *)
(* The scenario of the specification: add(a,1), add(b,2), add(a,3), then    *)
(* reads                                                                    *)
(* ---------------------------------------------------------------------- *)
Call(name, key, val) == [name |-> name, key |-> key, val |-> val]

Script == <<Call("add", a, 1), Call("add", b, 2), Call("add", a, 3)>>

Off == [pos |-> -1, log |-> <<>>]

Advance(sc, call, tr) ==
    IF sc.pos = -1 THEN Off
    ELSE IF sc.pos < Len(Script)
    THEN IF call = Script[sc.pos + 1]
         THEN [pos |-> sc.pos + 1, log |-> sc.log \o tr]
         ELSE Off
    ELSE IF call = Call("getAllKeys", End, NoVal) \/ call = Call("get", a, NoVal)
         THEN sc
         ELSE Off

(* ---------------------------------------------------------------------- *)
(* An observer subscribed to Add, Update, Remove, Get and Clear             *)
(* ---------------------------------------------------------------------- *)
\* what one notification does to the observer's copy
Observe(m, e) ==
    CASE e.type \in {"Add", "Update"} -> [m EXCEPT ![e.key] = e.val]
      [] e.type = "Remove"            -> [m EXCEPT ![e.key] = NoVal]
      [] e.type = "Clear"             -> [k \in Keys |-> NoVal]
      [] OTHER                        -> m

\* the notifications of one call, delivered in order
RECURSIVE Replay(_, _)
Replay(m, tr) ==
    IF tr = <<>> THEN m ELSE Replay(Observe(m, Head(tr)), Tail(tr))

(* ---------------------------------------------------------------------- *)
(* Public operations: each holds _mutex from entry to return                *)
(* ---------------------------------------------------------------------- *)
NoResult ==
    [has |-> FALSE, handle |-> Null, value |-> NoVal, size |-> 0, keys |-> {},
     error |-> "none"]

\* the handles that callers hold between calls
Holders == {held} \ {Null}

\* the notification of a call at which a delegate throws (0: at none)
FailPoints == IF faults = "callbacks" THEN 0..(NumKeys + 3) ELSE {0}

Enter(failAt) ==
    [data |-> data, heap |-> heap, trace |-> <<>>, owned |-> Holders,
     failAt |-> failAt, error |-> "none"]

\* no call is recorded: the cache was just constructed, or the caller and
\* the observers have dropped what the last call gave them
Idle == Call("idle", End, NoVal)

Return(call, s, res) ==
    /\ op = Idle
    \* the failing notification, if any, is one the call emits
    /\ s.failAt = 0 \/ Unwinding(s)
    /\ Allowed(strategy, s.trace)
    /\ data' = s.data
    /\ heap' = Collect(s.data, s.heap, Holders)
    /\ trace' = s.trace
    /\ op' = call
    /\ pre' = [data |-> data, heap |-> heap]
    /\ result' = IF Unwinding(s) THEN [NoResult EXCEPT !.error = s.error] ELSE res
    /\ scenario' = IF watched THEN Advance(scenario, call, s.trace) ELSE scenario
    /\ mirror' = IF watched THEN Replay(mirror, s.trace) ELSE mirror
    /\ UNCHANGED <<strategy, faults, watched, held, heldVal>>
    /\ UNCHANGED threadVars

add(key, val) ==
    \E delMe \in SUBSET Keys, failAt \in FailPoints :
        Return(Call("add", key, val), doAdd(Enter(failAt), key, val, delMe), NoResult)

update(key, val) ==
    \E delMe \in SUBSET Keys, failAt \in FailPoints :
        Return(Call("update", key, val), doUpdate(Enter(failAt), key, val, delMe), NoResult)

\* the values a caller's handle can own, or none (empty handle)
HandleArgs == IF faults = "handles" THEN Vals \cup {NoVal} ELSE Vals

\* what reading through the handle can do
OutcomesOf(val) == IF val = NoVal THEN Outcomes ELSE {"continue"}

\* the caller's std::shared_ptr<TValue> argument: std::make_shared<TValue>(val),
\* or an empty handle for NoVal
MakeShared(s, val) ==
    LET x == FreshHandle(s.heap)
    IN  IF val = NoVal THEN [s |-> s, ptr |-> Null]
        ELSE [s |-> [s EXCEPT !.heap[x] = val, !.owned = @ \cup {x}], ptr |-> x]

\* add(const TKey&, std::shared_ptr<TValue>)
addShared(key) ==
    \E val \in HandleArgs, delMe \in SUBSET Keys, failAt \in FailPoints :
      \E ub \in OutcomesOf(val) :
        LET m == MakeShared(Enter(failAt), val)
        IN  Return(Call("add", key, val), doAddShared(m.s, key, m.ptr, ub, delMe), NoResult)

\* update(const TKey&, std::shared_ptr<TValue>)
updateShared(key) ==
    \E val \in HandleArgs, delMe \in SUBSET Keys, failAt \in FailPoints :
      \E ub \in OutcomesOf(val) :
        LET m == MakeShared(Enter(failAt), val)
        IN  Return(Call("update", key, val), doUpdateShared(m.s, key, m.ptr, ub, delMe), NoResult)

\* remove followed by a replacement pass
remove_ThenReplace(key) ==
    \E delMe \in SUBSET Keys, failAt \in FailPoints :
        Return(Call("remove", key, NoVal),
               doReplace(doRemove(Enter(failAt), find(Enter(failAt), key)), delMe), NoResult)

remove(key) ==
    \E failAt \in FailPoints :
        Return(Call("remove", key, NoVal),
               doRemove(Enter(failAt), find(Enter(failAt), key)), NoResult)

has(key) ==
    \E react \in Reactions, failAt \in FailPoints :
        LET r == doHas(Enter(failAt), key, react)
        IN  Return(Call("has", key, NoVal), r.s, [NoResult EXCEPT !.has = r.ret])

get(key) ==
    \E react \in Reactions, failAt \in FailPoints :
        LET r == doGet(Enter(failAt), key, react)
        IN  Return(Call("get", key, NoVal), r.s,
                   [NoResult EXCEPT !.handle = r.ret,
                                    !.value = IF r.ret = Null THEN NoVal ELSE Deref(r.s.heap, r.ret)])

clear ==
    \E failAt \in FailPoints :
        Return(Call("clear", End, NoVal), doClear(Enter(failAt)), NoResult)

\* size that counts the entries before the replacement pass
size_BeforeReplace ==
    \E delMe \in SUBSET Keys, failAt \in FailPoints :
        Return(Call("size", End, NoVal), doReplace(Enter(failAt), delMe),
               [NoResult EXCEPT !.size = Cardinality(Present(data))])

size ==
    \E delMe \in SUBSET Keys, failAt \in FailPoints :
        LET s == doReplace(Enter(failAt), delMe)
        IN  Return(Call("size", End, NoVal), s,
                   [NoResult EXCEPT !.size = Cardinality(Present(s.data))])

forceReplace ==
    \E delMe \in SUBSET Keys, failAt \in FailPoints :
        Return(Call("forceReplace", End, NoVal), doReplace(Enter(failAt), delMe), NoResult)

getAllKeys ==
    \E delMe \in SUBSET Keys, failAt \in FailPoints :
        LET s == doReplace(Enter(failAt), delMe)
        IN  Return(Call("getAllKeys", End, NoVal), s,
                   [NoResult EXCEPT !.keys = Present(s.data)])

\* between two public calls: the caller drops the result and the observers
\* their notifications; the cache keeps its store
Forget ==
    /\ op # Idle
    /\ op' = Idle
    /\ data' = Moved(data, heap, held).data
    /\ heap' = Moved(data, heap, held).heap
    /\ held' = Moved(data, heap, held).held
    /\ pre' = [data |-> data', heap |-> heap']
    /\ trace' = <<>>
    /\ result.error # "crash"
    /\ result' = NoResult
    /\ UNCHANGED <<strategy, scenario, mirror, faults, watched, heldVal>>
    /\ UNCHANGED threadVars

(* ---------------------------------------------------------------------- *)
(* Threads: every public operation is                                        *)
(*     typename TMutex::ScopedLock lock(_mutex);  doX(...);                  *)
(* ---------------------------------------------------------------------- *)
Threads == 1..NumThreads

Unlocked == 0

NoJob == [call |-> Idle, delMe |-> {}, react |-> "none", n |-> 0,
          entry |-> [data |-> [k \in Keys |-> Null], heap |-> [x \in Handles |-> NoVal]]]

\* the public operations a thread can call
Calls ==
    {Call(name, key, val) : name \in {"add", "update"}, key \in Keys, val \in Vals}
    \cup {Call(name, key, NoVal) : name \in {"remove", "has", "get"}, key \in Keys}
    \cup {Call(name, End, NoVal) : name \in {"clear", "size", "forceReplace", "getAllKeys"}}

\* the answers a strategy can give to a notification of this type; the
\* others are not asked anything
Answers(type) ==
    IF type = "IsValid" THEN {[delMe |-> {}, react |-> r] : r \in Reactions}
    ELSE IF type = "Replace" THEN {[delMe |-> d, react |-> "none"] : d \in SUBSET Keys}
    ELSE {[delMe |-> {}, react |-> "none"]}

\* the body of the public operation c under the lock, started in state s
Run(c, delMe, react, s) ==
    CASE c.name = "add" -> [s |-> doAdd(s, c.key, c.val, delMe), res |-> NoResult]
      [] c.name = "update" -> [s |-> doUpdate(s, c.key, c.val, delMe), res |-> NoResult]
      [] c.name = "remove" -> [s |-> doRemove(s, find(s, c.key)), res |-> NoResult]
      [] c.name = "has" ->
            LET r == doHas(s, c.key, react)
            IN  [s |-> r.s, res |-> [NoResult EXCEPT !.has = r.ret]]
      [] c.name = "get" ->
            LET r == doGet(s, c.key, react)
            IN  [s |-> r.s,
                 res |-> [NoResult EXCEPT
                            !.handle = r.ret,
                            !.value = IF r.ret = Null THEN NoVal ELSE Deref(r.s.heap, r.ret)]]
      [] c.name = "clear" -> [s |-> doClear(s), res |-> NoResult]
      [] c.name = "size" ->
            LET s1 == doReplace(s, delMe)
            IN  [s |-> s1, res |-> [NoResult EXCEPT !.size = Cardinality(Present(s1.data))]]
      [] c.name = "forceReplace" -> [s |-> doReplace(s, delMe), res |-> NoResult]
      [] c.name = "getAllKeys" ->
            LET s1 == doReplace(s, delMe)
            IN  [s |-> s1, res |-> [NoResult EXCEPT !.keys = Present(s1.data)]]

\* the call j executed from its entry up to and including its n-th
\* notification (n = 0: to its end)
Upto(j, n) ==
    Run(j.call, j.delMe, j.react,
        [data |-> j.entry.data, heap |-> j.entry.heap, trace |-> <<>>,
         owned |-> {}, failAt |-> n, error |-> "none"]).s

\* the number of notifications the call j emits
Total(j) == Len(Upto(j, 0).trace)

\* the threads that execute a call
Inside == {t \in Threads : pc[t] \in {"in", "reenter"}}

\* a lock that lets everyone in
CanLock_Always(m, t) == TRUE

\* a lock that lets its owner in again
CanLock_Recursive(m, t) == m \in {Unlocked, t}

\* FastMutex::lock() returns only when nobody holds the mutex
CanLock(m, t) == m = Unlocked

\* a thread calls a public operation and reaches the ScopedLock
Begin(t) ==
    /\ pc[t] = "out"
    /\ pc' = [pc EXCEPT ![t] = "wait"]
    /\ UNCHANGED <<strategy, data, heap, op, pre, trace, result, scenario, mirror,
                   faults, watched, held, heldVal, mutex, job, glog>>

\* ScopedLock(_mutex): the thread takes the lock and enters the body; a
\* delegate that called the cache stands here as well
Acquire(t) ==
    /\ pc[t] \in {"wait", "reenter"}
    /\ CanLock(mutex, t)
    /\ \E c \in Calls :
            job' = [job EXCEPT ![t] = [NoJob EXCEPT !.call = c,
                                                     !.entry = [data |-> data, heap |-> heap]]]
    /\ mutex' = t
    /\ pc' = [pc EXCEPT ![t] = "in"]
    /\ glog' = IF Inside = {} THEN <<>> ELSE glog
    /\ UNCHANGED <<strategy, data, heap, op, pre, trace, result, scenario, mirror,
                   faults, watched, held, heldVal>>

\* the body runs up to its next notification and the delegates run: the
\* strategy gives its answer, and a delegate may call the cache
Step(t) ==
    /\ pc[t] = "in"
    /\ job[t].n < Total(job[t])
    /\ LET n == job[t].n + 1
           type == Upto(job[t], n).trace[n].type
       IN  \E ans \in Answers(type) :
            LET j == [job[t] EXCEPT
                        !.n = n,
                        !.delMe = IF type = "Replace" THEN ans.delMe ELSE @,
                        !.react = IF type = "IsValid" THEN ans.react ELSE @]
                s == Upto(j, n)
            IN  /\ Allowed(strategy, s.trace)
                /\ data' = s.data
                /\ heap' = s.heap
                /\ glog' = Append(glog, [thread |-> t, type |-> type, key |-> s.trace[n].key])
                /\ job' = [job EXCEPT ![t] = j]
    /\ \E again \in BOOLEAN :
            pc' = [pc EXCEPT ![t] = IF again THEN "reenter" ELSE "in"]
    /\ UNCHANGED <<strategy, op, pre, trace, result, scenario, mirror,
                   faults, watched, held, heldVal, mutex>>

\* the body runs to its end and ~ScopedLock unlocks
Release(t) ==
    /\ pc[t] = "in"
    /\ job[t].n = Total(job[t])
    /\ LET s == Upto(job[t], 0)
       IN  /\ data' = Moved(s.data, s.heap, Null).data
           /\ heap' = Moved(s.data, s.heap, Null).heap
    /\ mutex' = Unlocked
    /\ pc' = [pc EXCEPT ![t] = "out"]
    /\ job' = [job EXCEPT ![t] = NoJob]
    /\ UNCHANGED <<strategy, op, pre, trace, result, scenario, mirror,
                   faults, watched, held, heldVal, glog>>

\* AbstractCache(const TStrategy& strat): an empty store
Constructed ==
    /\ data = [k \in Keys |-> Null]
    /\ heap = [x \in Handles |-> NoVal]
    /\ op = Idle
    /\ pre = [data |-> data, heap |-> heap]
    /\ trace = <<>>
    /\ result = NoResult
    /\ scenario = [pos |-> 0, log |-> <<>>]
    /\ mirror = [k \in Keys |-> NoVal]
    /\ held = Null
    /\ heldVal = NoVal
    /\ mutex = Unlocked
    /\ pc = [t \in Threads |-> "out"]
    /\ job = [t \in Threads |-> NoJob]
    /\ glog = <<>>

\* callers pass values or handles that own a value, and no callback throws
Init ==
    /\ Constructed
    /\ strategy \in Strategies
    /\ faults = "none"
    /\ watched = TRUE

Next ==
    \/ \E key \in Keys, val \in Vals : add(key, val)
    \/ \E key \in Keys, val \in Vals : update(key, val)
    \/ \E key \in Keys : addShared(key)
    \/ \E key \in Keys : updateShared(key)
    \/ \E key \in Keys : remove(key)
    \/ \E key \in Keys : has(key)
    \/ \E key \in Keys : get(key)
    \/ clear
    \/ size
    \/ forceReplace
    \/ getAllKeys
    \/ Forget

Spec == Init /\ [][Next]_vars

\* the caller of the last get keeps the handle it was given (and drops the
\* one it kept before)
Keep ==
    /\ op.name = "get"
    /\ result.handle # Null
    /\ held # result.handle
    /\ held' = result.handle
    /\ heldVal' = result.value
    /\ heap' = Collect(data, heap, {result.handle})
    /\ UNCHANGED <<strategy, data, op, pre, trace, result, scenario, mirror, faults, watched>>
    /\ UNCHANGED threadVars

NextHeld == Next \/ Keep

\* the cache with a caller that keeps handles; the strategy is the one that
\* can give every answer
InitHeld ==
    /\ Constructed
    /\ strategy = "Free"
    /\ faults = "none"
    /\ watched = FALSE

SpecHeld == InitHeld /\ [][NextHeld]_vars

\* the cache with delegates that may throw; the strategy is the one that can
\* give every answer
InitFaulty ==
    /\ Constructed
    /\ strategy = "Free"
    /\ faults = "callbacks"
    /\ watched = FALSE

SpecFaulty == InitFaulty /\ [][Next]_vars

\* the cache with callers that may pass empty handles
InitEmpty ==
    /\ Constructed
    /\ strategy = "Free"
    /\ faults = "handles"
    /\ watched = FALSE

SpecEmpty == InitEmpty /\ [][Next]_vars

\* the cache called by several threads; the strategy is the one that can
\* give every answer
InitThreads ==
    /\ Constructed
    /\ strategy = "Free"
    /\ faults = "none"
    /\ watched = FALSE

NextThreads ==
    \E t \in Threads :
        \/ Begin(t)
        \/ Acquire(t)
        \/ Step(t)
        \/ Release(t)

SpecThreads == InitThreads /\ [][NextThreads]_vars

\* Step(t) is enabled: the strategy has an answer to every question
CanStep(t) == pc[t] = "in" /\ job[t].n < Total(job[t])

\* Release(t) is enabled
CanRelease(t) == pc[t] = "in" /\ job[t].n = Total(job[t])

\* the scheduler runs a thread that can run (weak fairness of Step and
\* Release, written with their enabling conditions), and a thread waiting
\* for a lock that is free again and again gets it
Fairness ==
    \A t \in Threads :
        /\ []<>(~CanStep(t)) \/ []<><<Step(t)>>_vars
        /\ []<>(~CanRelease(t)) \/ []<><<Release(t)>>_vars
        /\ SF_vars(Acquire(t))

SpecThreadsFair == SpecThreads /\ Fairness

TypeOK ==
    /\ strategy \in Strategies
    /\ data \in [Keys -> Handles \cup {Null, EmptyPtr}]
    /\ heap \in [Handles -> Vals \cup {NoVal}]
    /\ \A k \in Keys : data[k] \in Handles => heap[data[k]] # NoVal
    /\ held # Null => heap[held] # NoVal
    /\ mutex \in Threads \cup {Unlocked}
    /\ pc \in [Threads -> {"out", "wait", "in", "reenter"}]
    /\ \A t \in Threads : job[t].call \in Calls \cup {Idle}

(* ---------------------------------------------------------------------- *)
(* Reading the trace of the last call                                       *)
(* ---------------------------------------------------------------------- *)
\* the positions of tr that hold a notification of this type
At(tr, type) == {i \in 1..Len(tr) : tr[i].type = type}

\* the positions of tr that hold a notification of this type for this key
AtKey(tr, type, key) == {i \in At(tr, type) : tr[i].key = key}

\* the store when the last call was entered
PreStore == Contents(pre.data, pre.heap)

\* the store when the last call returned
Store == Contents(data, heap)

\* the last call entered with its key in the store
KeyWasPresent == op.key # End /\ pre.data[op.key] # Null

\* the last call entered without its key in the store
KeyWasAbsent == op.key # End /\ pre.data[op.key] = Null

(* ---------------------------------------------------------------------- *)
(* C1  add(k, v2) on a present key                                          *)
(* ---------------------------------------------------------------------- *)
\* what the three adds of Script leave behind under a strategy that evicts
\* nothing: keys {a, b}, a reads 3, Remove(a) once, Add(a, .) twice
ScenarioOutcome ==
    (scenario.pos = Len(Script) /\ strategy = "NoEvict") =>
        /\ Present(data) = {a, b}
        /\ Store[a] = 3
        /\ Cardinality(AtKey(scenario.log, "Remove", a)) = 1
        /\ Cardinality(AtKey(scenario.log, "Add", a)) = 2
        /\ op.name = "getAllKeys" => result.keys = {a, b}
        /\ op.name = "get" => result.handle # Null /\ result.value = 3

\* the overwrite itself: Remove(k) with k still stored, then Add(k, v2) with
\* k not yet stored, then the replacement pass with k -> v2 stored
OverwriteByAdd ==
    /\ Len(trace) >= 3
    /\ trace[1].type = "Remove" /\ trace[1].key = op.key
    /\ trace[1].store = PreStore
    /\ trace[2].type = "Add" /\ trace[2].key = op.key /\ trace[2].val = op.val
    /\ trace[2].store[op.key] = NoVal
    /\ trace[3].type = "Replace"
    /\ trace[3].store = [PreStore EXCEPT ![op.key] = op.val]
    /\ At(trace, "Update") = {}
    /\ At(trace, "Add") = {2}

\* C1 as stated: add(k, v2) on a present key k emits exactly one Remove(k)
\* and then exactly one Add(k, v2), no Update, and inserts k -> v2 only after
\* the Add notification; the scenario add(a,1), add(b,2), add(a,3) ends with
\* keys {a,b}, a reading 3, one Remove(a) and two Add(a, .).
C1_AsStated ==
    /\ (op.name = "add" /\ KeyWasPresent) =>
           /\ OverwriteByAdd
           /\ AtKey(trace, "Remove", op.key) = {1}
    /\ ScenarioOutcome

\* C1 amended: add(k, v2) on a present key k emits, before its replacement
\* pass, exactly one Remove(k) and then exactly one Add(k, v2), no Update, and
\* inserts k -> v2 only after the Add notification; every further Remove (a
\* second Remove(k) included) comes from the replacement pass that follows.
\* The scenario ends as stated.
C1_AddOverwrites ==
    /\ (op.name = "add" /\ KeyWasPresent) =>
           /\ OverwriteByAdd
           /\ \A i \in 4..Len(trace) :
                  trace[i].type = "Remove" /\ trace[i].key \in trace[3].delMe
    /\ ScenarioOutcome

\* the third add of the scenario has overwritten a
C1_Witness ==
    /\ op = Call("add", a, 3) /\ KeyWasPresent
    /\ scenario.pos = Len(Script) /\ strategy = "NoEvict"

(* ---------------------------------------------------------------------- *)
(* C2  update(k, v2) on a present key                                       *)
(* ---------------------------------------------------------------------- *)
\* C2: update(k, v2) on a present key k emits exactly one Update(k, v2)
\* while k still holds its old value, then replaces the value, and emits no
\* Add and no Remove for the overwrite: every Remove follows the Replace
\* notification and is for a key the strategy returned.  The replacement
\* pass sees the single entry k -> v2 and every other entry unchanged, and at
\* return k reads v2 unless the pass removed it.
C2_UpdateOverwrites ==
    (op.name = "update" /\ KeyWasPresent) =>
        /\ Len(trace) >= 2
        /\ trace[1].type = "Update" /\ trace[1].key = op.key /\ trace[1].val = op.val
        /\ trace[1].store = PreStore
        /\ At(trace, "Update") = {1}
        /\ At(trace, "Add") = {}
        /\ trace[2].type = "Replace"
        /\ trace[2].store = [PreStore EXCEPT ![op.key] = op.val]
        /\ \A i \in 3..Len(trace) :
               trace[i].type = "Remove" /\ trace[i].key \in trace[2].delMe
        /\ IF op.key \in trace[2].delMe
           THEN Store[op.key] = NoVal /\ Cardinality(AtKey(trace, "Remove", op.key)) = 1
           ELSE Store[op.key] = op.val /\ AtKey(trace, "Remove", op.key) = {}

\* an update has overwritten a present key with a different value and the
\* key is still stored
C2_Witness ==
    /\ op.name = "update" /\ KeyWasPresent
    /\ PreStore[op.key] # op.val
    /\ Store[op.key] = op.val

(* ---------------------------------------------------------------------- *)
(* C3  update(k, v) on an absent key is add(k, v)                           *)
(* ---------------------------------------------------------------------- *)
\* the state the last call was entered in
Entered ==
    [data |-> pre.data, heap |-> pre.heap, trace |-> <<>>, owned |-> Holders,
     failAt |-> 0, error |-> "none"]

\* the state the last call returned in
Returned ==
    [data |-> data, heap |-> heap, trace |-> trace, owned |-> Holders,
     failAt |-> 0, error |-> result.error]

\* C3: on an absent key k, update(k, v) and add(k, v) do the same under
\* every strategy: one Add(k, v) first, no Update, then the replacement pass,
\* and with the same answer of onReplace the same notifications and the same
\* store.
C3_UpdateAbsentIsAdd ==
    /\ (op.name = "update" /\ KeyWasAbsent) =>
           /\ Len(trace) >= 2
           /\ trace[1].type = "Add" /\ trace[1].key = op.key /\ trace[1].val = op.val
           /\ At(trace, "Add") = {1}
           /\ At(trace, "Update") = {}
           /\ trace[2].type = "Replace"
           /\ Returned = doAdd(Entered, op.key, op.val, trace[2].delMe)
    /\ (op.name = "add" /\ KeyWasAbsent) =>
           /\ Len(trace) >= 2
           /\ trace[2].type = "Replace"
           /\ Returned = doUpdate(Entered, op.key, op.val, trace[2].delMe)

\* an update has inserted an absent key into a non-empty store
C3_Witness ==
    /\ op.name = "update" /\ KeyWasAbsent
    /\ Present(pre.data) # {}
    /\ Store[op.key] = op.val

(* ---------------------------------------------------------------------- *)
(* C4  get(k)                                                               *)
(* ---------------------------------------------------------------------- *)
\* C4: get(k) on an absent key returns empty and emits nothing; on a present
\* key it emits Get(k), then IsValid(k), then Remove(k) only if the answer
\* was invalid, and when the answer was valid it returns the handle stored
\* for k.
C4_GetOrder ==
    /\ (op.name = "get" /\ KeyWasAbsent) =>
           trace = <<>> /\ result.handle = Null
    /\ (op.name = "get" /\ KeyWasPresent) =>
           /\ Len(trace) >= 2
           /\ trace[1].type = "Get" /\ trace[1].key = op.key
           /\ trace[2].type = "IsValid" /\ trace[2].key = op.key
           /\ IF trace[2].answer
              THEN /\ Len(trace) = 2
                   /\ result.handle # Null
                   /\ result.handle = data[op.key]
                   /\ result.handle = pre.data[op.key]
                   /\ result.value = PreStore[op.key]
              ELSE /\ Len(trace) = 3
                   /\ trace[3].type = "Remove" /\ trace[3].key = op.key
                   /\ trace[3].store = PreStore

\* a get of a present key was answered invalid while another key is stored
C4_Witness ==
    /\ op.name = "get" /\ KeyWasPresent
    /\ ~trace[2].answer
    /\ Present(data) # {}

\* a get of a present key was answered valid
C4_WitnessValid ==
    op.name = "get" /\ KeyWasPresent /\ trace[2].answer

(* ---------------------------------------------------------------------- *)
(* C5  an invalid entry is gone when get returns                            *)
(* ---------------------------------------------------------------------- *)
\* the last call was a get of a present key that the strategy called invalid
GetAnsweredInvalid ==
    /\ op.name = "get" /\ KeyWasPresent
    /\ \E i \in At(trace, "IsValid") : ~trace[i].answer

\* at the return of a get answered invalid the result is empty and the key
\* is out of the store; a strategy that never answers valid makes every get
\* return empty and every has return false
C5_AtReturn ==
    /\ GetAnsweredInvalid => result.handle = Null /\ data[op.key] = Null
    /\ strategy = "NeverValid" =>
           /\ op.name = "get" => result.handle = Null
           /\ op.name = "has" => ~result.has

\* a key out of the store stays out until an add or update of it, and has
\* of it returns false
C5_StaysOut ==
    \A k \in Keys :
        data[k] = Null =>
            /\ (op'.name = "has" /\ op'.key = k) => ~result'.has
            /\ ~(op'.name \in {"add", "update"} /\ op'.key = k) => data'[k] = Null

\* C5: when the validity check answers false for a present key k, get(k)
\* returns empty and k is out of the store when get returns, and every later
\* has(k) returns false until k is added again; with a strategy whose
\* onIsValid always answers false every get returns empty and every has
\* returns false.
C5_InvalidEvicted == []C5_AtReturn /\ [][C5_StaysOut]_vars

\* a get was answered invalid by a strategy that may also answer valid,
\* while another key stays stored
C5_Witness ==
    /\ GetAnsweredInvalid
    /\ strategy = "Free"
    /\ Present(data) # {}

(* ---------------------------------------------------------------------- *)
(* C6  has(k) is read-only                                                  *)
(* ---------------------------------------------------------------------- *)
\* C6: has(k) returns true exactly when k is stored and the strategy answers
\* valid for k; it leaves the store as it was, also when the answer is
\* invalid, emits no Add, Update, Remove, Get or Clear, and on an absent key
\* emits nothing at all.
C6_HasReadOnly ==
    op.name = "has" =>
        /\ data = pre.data /\ heap = pre.heap
        /\ IF KeyWasPresent
           THEN /\ Len(trace) = 1
                /\ trace[1].type = "IsValid" /\ trace[1].key = op.key
                /\ result.has = trace[1].answer
           ELSE trace = <<>> /\ ~result.has

\* has was answered invalid for a stored key
C6_Witness ==
    /\ op.name = "has" /\ KeyWasPresent
    /\ ~trace[1].answer /\ ~result.has
    /\ data[op.key] # Null

(* ---------------------------------------------------------------------- *)
(* C7  remove(k)                                                            *)
(* ---------------------------------------------------------------------- *)
\* C7: remove(k) on a present key emits exactly one Remove(k), sent while k
\* is still stored, and leaves k absent and every other entry unchanged;
\* on an absent key it emits nothing and leaves the store unchanged; it
\* never runs a replacement pass.
C7_Remove ==
    op.name = "remove" =>
        /\ At(trace, "Replace") = {}
        /\ IF KeyWasPresent
           THEN /\ Len(trace) = 1
                /\ trace[1].type = "Remove" /\ trace[1].key = op.key
                /\ trace[1].store = PreStore
                /\ data = [pre.data EXCEPT ![op.key] = Null]
                /\ Store = [PreStore EXCEPT ![op.key] = NoVal]
           ELSE /\ trace = <<>>
                /\ data = pre.data /\ heap = pre.heap

\* a present key was removed from a store that keeps another entry
C7_Witness ==
    /\ op.name = "remove" /\ KeyWasPresent
    /\ Present(data) # {}

\* an absent key was removed from a non-empty store
C7_WitnessAbsent ==
    /\ op.name = "remove" /\ KeyWasAbsent
    /\ Present(data) # {}

(* ---------------------------------------------------------------------- *)
(* C8  clear()                                                              *)
(* ---------------------------------------------------------------------- *)
\* at the return of clear the only notification is one Clear, sent while the
\* entries were still stored, and the store is empty
C8_AtReturn ==
    op.name = "clear" =>
        /\ Len(trace) = 1
        /\ trace[1].type = "Clear"
        /\ trace[1].store = PreStore
        /\ Present(data) = {}
        /\ \A x \in Handles : heap[x] = NoVal

\* an empty store stays empty until an add or update, and size and
\* getAllKeys report it as empty
C8_StaysEmpty ==
    (Present(data) = {} /\ op'.name \notin {"add", "update"}) =>
        /\ Present(data') = {}
        /\ op'.name = "size" => result'.size = 0
        /\ op'.name = "getAllKeys" => result'.keys = {}

\* C8: clear() emits exactly one Clear before emptying the store and no
\* Remove for the entries it drops; afterwards, whatever was stored and
\* whatever the strategy, size() returns 0 and getAllKeys() the empty set
\* until the next add or update.
C8_Clear == []C8_AtReturn /\ [][C8_StaysEmpty]_vars

\* a store holding every key was cleared
C8_Witness ==
    /\ op.name = "clear"
    /\ Present(pre.data) = Keys

\* size() was asked of a store emptied by clear
C8_WitnessSize ==
    op.name = "size" /\ Present(pre.data) = {} /\ result.size = 0

(* ---------------------------------------------------------------------- *)
(* C9  size() and getAllKeys() read after one replacement pass              *)
(* ---------------------------------------------------------------------- *)
\* the last call ran one replacement pass first: Replace is the first
\* notification, sent on the store as entered, and the rest are the Removes
\* of the returned keys that were stored
OnePassFirst ==
    /\ Len(trace) >= 1
    /\ trace[1].type = "Replace"
    /\ trace[1].store = PreStore
    /\ At(trace, "Replace") = {1}
    /\ \A i \in 2..Len(trace) : trace[i].type = "Remove"
    /\ {trace[i].key : i \in 2..Len(trace)} = trace[1].delMe \cap Present(pre.data)
    /\ Present(data) = Present(pre.data) \ trace[1].delMe

\* C9: size() and getAllKeys() each run one replacement pass before reading
\* the store: size() returns the number of entries left after the pass and
\* getAllKeys() returns exactly the set of keys left after it.
C9_ReadAfterPass ==
    /\ op.name = "size" =>
           /\ OnePassFirst
           /\ result.size = Cardinality(Present(data))
    /\ op.name = "getAllKeys" =>
           /\ OnePassFirst
           /\ result.keys = Present(data)

\* size() was asked while its replacement pass evicted an entry and left
\* another
C9_Witness ==
    /\ op.name = "size"
    /\ Present(data) # Present(pre.data)
    /\ result.size > 0

\* getAllKeys() was asked while its replacement pass evicted an entry and
\* left another
C9_WitnessKeys ==
    /\ op.name = "getAllKeys"
    /\ Present(data) # Present(pre.data)
    /\ result.keys # {}

(* ---------------------------------------------------------------------- *)
(* C10  the replacement pass of add and update sees the new entry           *)
(* ---------------------------------------------------------------------- *)
\* the last call ran exactly one replacement pass, after its Add or Update
\* notification and with the new entry stored
PassSeesNewEntry ==
    \E i \in 1..Len(trace), j \in 1..Len(trace) :
        /\ i < j
        /\ trace[i].type \in {"Add", "Update"}
        /\ trace[i].key = op.key /\ trace[i].val = op.val
        /\ At(trace, "Add") \cup At(trace, "Update") = {i}
        /\ trace[j].type = "Replace"
        /\ At(trace, "Replace") = {j}
        /\ trace[j].store[op.key] = op.val

\* C10: add and update always run one replacement pass after the Add or
\* Update notification and after the store has been changed; with a strategy
\* whose onReplace returns {K0} whenever K0 is stored, K0 is out of the store
\* when any add or update returns, and add(K0, v) and update(K0, v) insert
\* K0 and then evict it with a Remove(K0) as their last notification.
C10_PassAfterInsert ==
    op.name \in {"add", "update"} =>
        /\ PassSeesNewEntry
        /\ strategy = "EvictK" =>
               /\ data[K0] = Null
               /\ op.key = K0 =>
                      /\ trace[Len(trace)].type = "Remove"
                      /\ trace[Len(trace)].key = K0
                      /\ trace[Len(trace)].store[K0] = op.val
                      /\ trace[Len(trace) - 1].type = "Replace"

\* add(K0, v) under the evicting strategy, with another key stored
C10_Witness ==
    /\ strategy = "EvictK"
    /\ op.name = "add" /\ op.key = K0
    /\ Present(data) # {}

\* update(K0, v) under the evicting strategy
C10_WitnessUpdate ==
    /\ strategy = "EvictK"
    /\ op.name = "update" /\ op.key = K0

(* ---------------------------------------------------------------------- *)
(* C16  get(k) and the replacement pass                                     *)
(* ---------------------------------------------------------------------- *)
\* C16 as stated: a call to get(k) runs a replacement pass (onReplace is
\* invoked during the call), as a call to add does.
C16_GetRunsPass ==
    op.name \in {"get", "add"} => At(trace, "Replace") # {}

(* ---------------------------------------------------------------------- *)
(* C17  one notification for every change of membership                     *)
(* ---------------------------------------------------------------------- *)
\* the keys a store snapshot holds
Members(store) == {k \in Keys : store[k] # NoVal}

\* the store right after notification i of the last call was delivered and
\* acted upon: what the next notification saw, or the store at return
After(i) == IF i < Len(trace) THEN trace[i + 1].store ELSE Store

\* C17: in every call but clear the membership of the store changes only
\* with a notification for the key that changes: nothing changes before the
\* first notification, an Add(k, v) is followed by the insertion of k -> v
\* and by no other change, a Remove(k) by the erasure of k and by no other
\* change, and every other notification by no change of membership.
C17_OneNotificationPerChange ==
    (op # Idle /\ op.name # "clear") =>
        /\ Members(IF trace = <<>> THEN Store ELSE trace[1].store) = Members(PreStore)
        /\ \A i \in 1..Len(trace) :
               CASE trace[i].type = "Add" ->
                        /\ trace[i].key \notin Members(trace[i].store)
                        /\ After(i) = [trace[i].store EXCEPT ![trace[i].key] = trace[i].val]
                 [] trace[i].type = "Remove" ->
                        /\ trace[i].key \in Members(trace[i].store)
                        /\ After(i) = [trace[i].store EXCEPT ![trace[i].key] = NoVal]
                 [] OTHER ->
                        Members(After(i)) = Members(trace[i].store)

\* an add has overwritten a key and its replacement pass has evicted another
C17_Witness ==
    /\ op.name = "add" /\ KeyWasPresent
    /\ Len(trace) = 4
    /\ trace[4].key # op.key
    /\ Store[op.key] = op.val

(* ---------------------------------------------------------------------- *)
(* C18  the replacement pass                                                *)
(* ---------------------------------------------------------------------- *)
\* the replacement pass of the last call: one Replace at position j, then
\* one Remove for each returned key that was stored, in ascending order, and
\* nothing else; what was stored under the other keys is as the pass found it
PassAt(j) ==
    LET found   == trace[j].store
        evicted == trace[j].delMe \cap Members(found)
    IN  /\ trace[j].type = "Replace"
        /\ At(trace, "Replace") = {j}
        /\ Len(trace) = j + Cardinality(evicted)
        /\ \A i \in (j + 1)..Len(trace) :
               /\ trace[i].type = "Remove"
               /\ trace[i].key \in evicted
               /\ \A i2 \in (j + 1)..Len(trace) : i < i2 => trace[i].key < trace[i2].key
        /\ Store = [k \in Keys |-> IF k \in evicted THEN NoVal ELSE found[k]]

\* C18: a replacement pass (in forceReplace, size, getAllKeys, add, update)
\* invokes onReplace exactly once and then removes exactly the returned keys
\* that are stored, with one Remove for each and none for a returned key that
\* is absent; every other entry is left as it was, so with an onReplace that
\* always returns the empty set forceReplace() leaves the store unchanged and
\* emits no Remove.
C18_ReplacementPass ==
    /\ op.name \in {"forceReplace", "size", "getAllKeys"} =>
           /\ PassAt(1)
           /\ trace[1].store = PreStore
           /\ \A k \in Present(data) : data[k] = pre.data[k]
    /\ op.name \in {"add", "update"} =>
           \E j \in 1..Len(trace) : PassAt(j)
    /\ (op.name = "forceReplace" /\ strategy = "NoEvict") =>
           /\ data = pre.data /\ heap = pre.heap
           /\ At(trace, "Remove") = {}

\* forceReplace was answered with a stored key and an absent key
C18_Witness ==
    /\ op.name = "forceReplace"
    /\ trace[1].delMe \cap Present(pre.data) # {}
    /\ trace[1].delMe \ Present(pre.data) # {}

\* the replacement pass of an add has evicted an entry and left the new one
C18_WitnessAdd ==
    /\ op.name = "add"
    /\ Store[op.key] = op.val
    /\ At(trace, "Remove") # {}

(* ---------------------------------------------------------------------- *)
(* C20  an observer rebuilds the store from the notifications               *)
(* ---------------------------------------------------------------------- *)
\* C20: an observer that applies Add(k, v) and Update(k, v) as k -> v,
\* Remove(k) as the deletion of k, Clear as the deletion of everything and
\* Get as nothing holds exactly the key-to-value mapping of the store at the
\* return of every public call; a Remove(k) is only emitted while k is
\* stored and an Add(k, .) only while k is not.
C20_ObserverMirrorsStore ==
    /\ mirror = Store
    /\ \A i \in 1..Len(trace) :
           /\ trace[i].type = "Remove" => trace[i].store[trace[i].key] # NoVal
           /\ trace[i].type = "Add" => trace[i].store[trace[i].key] = NoVal

\* a store that holds every key was cleared after the observer had seen
\* its entries
C20_Witness ==
    /\ op.name = "clear"
    /\ Present(pre.data) = Keys
    /\ mirror = Store

(* ---------------------------------------------------------------------- *)
(* C13  a validity check that gets no answer                                *)
(* ---------------------------------------------------------------------- *)
\* the last call asked IsValid for a stored key and no delegate touched the
\* arguments
NoAnswer ==
    /\ op.name \in {"has", "get"} /\ KeyWasPresent
    /\ \E i \in At(trace, "IsValid") : trace[i].react = "none"

\* C13 as stated: when onIsValid gives no answer for a stored key k, k is
\* treated as invalid: has(k) returns false and get(k) returns empty and
\* evicts k.
C13_FailsClosed ==
    NoAnswer =>
        /\ op.name = "has" => ~result.has
        /\ op.name = "get" => result.handle = Null /\ data[op.key] = Null

\* C13 amended: when onIsValid gives no answer for a stored key k, k is
\* treated as valid: has(k) returns true, and get(k) returns the stored
\* handle, emits no Remove and leaves k in the store.
C13_NoAnswerIsValid ==
    NoAnswer =>
        /\ op.name = "has" => result.has
        /\ op.name = "get" =>
               /\ result.handle # Null /\ result.handle = data[op.key]
               /\ At(trace, "Remove") = {}
               /\ data = pre.data

\* get of a stored key, with no answer to IsValid
C13_Witness ==
    NoAnswer /\ op.name = "get"

\* has of a stored key, with no answer to IsValid
C13_WitnessHas ==
    NoAnswer /\ op.name = "has"

\* ---------------------------------------------------------------------------
\* C19

\* a delegate threw during the call
Threw == \E i \in 1..Len(trace) : trace[i].threw

\* the onAdd reaction failed during add(k, v)
AddThrewInAdd ==
    /\ op.name = "add"
    /\ Threw
    /\ trace[Len(trace)].type = "Add"

\* C19 as stated: when the onAdd reaction fails during add(k, v), the entry
\* k -> v is in the store after the failed call
C19_AsStated ==
    AddThrewInAdd => Store[op.key] = op.val

\* C19: a callback failure ends the call at the failing notification and
\* reaches the caller; the store stays as the failing notification found it,
\* with the changes made before it and none after it; when the onAdd
\* reaction fails during add(k, v) the key k is not in the store afterwards
C19_FailureNotRolledBack ==
    Threw =>
        /\ result.error = "callback"
        /\ trace[Len(trace)].threw
        /\ \A i \in 1..(Len(trace) - 1) : ~trace[i].threw
        /\ Store = trace[Len(trace)].store
        /\ AddThrewInAdd => Store[op.key] = NoVal

\* add over a stored key failed at Add: the old entry is gone, the new one
\* never came
C19_Witness ==
    /\ AddThrewInAdd
    /\ PreStore[op.key] # NoVal
    /\ Store[op.key] = NoVal
    /\ Store # PreStore

\* a replacement pass failed at the Remove of its second key, the first one
\* stays removed
C19_WitnessPass ==
    /\ Threw
    /\ Len(trace) >= 3
    /\ trace[Len(trace)].type = "Remove"
    /\ trace[Len(trace) - 1].type = "Remove"
    /\ trace[Len(trace) - 2].type = "Replace"
    /\ Store # PreStore

\* ---------------------------------------------------------------------------
\* C12

\* add(k, h) or update(k, h) was called with an empty handle h
NullHandlePassed ==
    /\ op.name \in {"add", "update"}
    /\ op.val = NoVal

\* C12: add(k, h) and update(k, h) with an empty handle h fail with
\* InvalidValue before any store change and any notification
C12_NullRejected ==
    NullHandlePassed =>
        /\ result.error = "InvalidValue"
        /\ trace = <<>>
        /\ data = pre.data

\* what the code does instead: it never reports InvalidValue; add over a
\* stored key has announced and done the removal before it reads through
\* the empty handle
C12_NullNeverRejected ==
    NullHandlePassed => result.error # "InvalidValue"

C12_WitnessRemoved ==
    /\ NullHandlePassed
    /\ op.name = "add"
    /\ result.error = "crash"
    /\ PreStore[op.key] # NoVal
    /\ AtKey(trace, "Remove", op.key) # {}
    /\ data[op.key] = Null

C12_WitnessStored ==
    /\ NullHandlePassed
    /\ result.error = "none"
    /\ data[op.key] = EmptyPtr

\* ---------------------------------------------------------------------------
\* C11

\* C11: a handle returned by get keeps reading the value it read when it was
\* returned, whatever the cache does afterwards
C11_HandleStable ==
    held # Null => heap[held] = heldVal

\* the key the handle came from was overwritten by update: the store holds
\* another handle and the kept one reads the old value
C11_Witness ==
    /\ held # Null
    /\ op.name = "update"
    /\ pre.data[op.key] = held
    /\ data[op.key] \notin {held, Null}
    /\ Store[op.key] # heldVal
    /\ heap[held] = heldVal

\* the key the handle came from left the store by an invalid answer, a
\* replacement pass, remove or clear
C11_WitnessGone ==
    /\ held # Null
    /\ op.name \in {"get", "size", "remove", "clear"}
    /\ \E k \in Keys : pre.data[k] = held /\ data[k] = Null
    /\ heap[held] = heldVal

\* ---------------------------------------------------------------------------
\* C14

\* the store as the call of thread t alone has left it so far
Alone(t) ==
    IF job[t].n = 0 THEN job[t].entry
    ELSE [data |-> Upto(job[t], job[t].n).data, heap |-> Upto(job[t], job[t].n).heap]

\* the notifications the call of thread t alone has emitted so far
Emitted(t) ==
    [i \in 1..job[t].n |->
        [thread |-> t, type |-> Upto(job[t], job[t].n).trace[i].type,
         key |-> Upto(job[t], job[t].n).trace[i].key]]

\* C14: with several threads calling, at most one call executes at a time;
\* it holds the lock through its notifications, the store is as that call
\* alone has left it starting from the store the call before it returned,
\* and the global trace holds its notifications and no others
C14_Serialized ==
    /\ Cardinality(Inside) <= 1
    /\ \A t \in Inside :
        /\ mutex = t
        /\ data = Alone(t).data
        /\ heap = Alone(t).heap
        /\ glog = Emitted(t)
    /\ \A i, k \in 1..Len(glog) :
            glog[i].thread = glog[k].thread =>
                \A m \in i..k : glog[m].thread = glog[i].thread

\* a call is between two of its notifications with a store change behind
\* it while every other thread waits for the lock
C14_Witness ==
    \E t \in Threads :
        /\ pc[t] = "in"
        /\ job[t].n >= 2
        /\ job[t].n < Total(job[t])
        /\ data # job[t].entry.data
        /\ \A u \in Threads \ {t} : pc[u] = "wait"

\* ---------------------------------------------------------------------------
\* C15

\* a delegate has called the cache during a notification
Reentered == \E t \in Threads : pc[t] = "reenter"

\* a thread that re-entered stays where it is, holding the lock
C15_BlocksForever ==
    \A t \in Threads : pc[t] = "reenter" => pc'[t] = "reenter" /\ mutex' = t

\* without re-entry some thread can always move
C15_NoDeadlock ==
    ~Reentered => (mutex = Unlocked \/ pc[mutex] = "in")

C15_WitnessReturned ==
    /\ ~Reentered
    /\ Inside = {}
    /\ mutex = Unlocked
    /\ glog # <<>>

====
